---- MODULE Spec2Model ----
(***************************************************************************)
(* Model of internal/cmd/plugin/report/logs.go: the collection of pod logs *)
(* into a ZIP archive.  streamPodLogs copies one pod's log stream to a     *)
(* writer; streamPodLogsToZip, streamClusterLogsToZip and                  *)
(* streamClusterJobLogsToZip create the archive entries and call it.       *)
(*                                                                         *)
(* Strings (entry names, error messages) are sequences of tokens, so that  *)
(* concatenation, prefixes and "the message contains X" can be evaluated.  *)
(***************************************************************************)
EXTENDS Naturals, Sequences, FiniteSets

VARIABLES
  op,          \* which entry point runs: "collect" (cluster pass, then job pass) or "batch"
  dirname,     \* the root directory inside the archive (argument dirname)
  name,        \* the section argument of streamPodLogsToZip
  podLogs,     \* what the platform's log endpoint serves for each pod
  cancelled,   \* ctx is done
  pc,          \* position of the single thread of control
  caller,      \* the function streamPodLogs returns to
  zipper,      \* the archive: the entries in creation order, each [name, body]
  writer,      \* the entry the io.Writer returned by the last zipper.Create writes to
  jobList,     \* jobList.Items
  podList,     \* the pods being iterated: podList.Items, or the pods argument
  i,           \* index of the pod being processed in podList / pods
  j,           \* index of the job being processed in jobList
  logStream,   \* the stream of the current streamPodLogs call
  buf,         \* the chunk io.Copy has read and not written yet
  err,         \* the named result err of streamPodLogs
  ret,         \* the result of each pass, once it has returned
  listings,    \* history: the calls of plugin.Client.List, in order
  streams,     \* history: one record per call of streamPodLogs
  cancelAt     \* history: the position and the archive when ctx was cancelled

vars == <<op, dirname, name, podLogs, cancelled, pc, caller, zipper, writer,
          jobList, podList, i, j, logStream, buf, err, ret, listings, streams,
          cancelAt>>

----------------------------------------------------------------------------
(* Bounds and input domains *)

MaxLogLen == 2     \* longest log a pod serves

PodNames == {"p1", "p2"}
JobNames == {"j1", "j2"}
Roots == {<<"rep">>}
Sections == {"operator"}

RECURSIVE SeqsUpTo(_, _)
SeqsUpTo(S, n) ==
  IF n = 0 THEN {<<>>}
  ELSE LET shorter == SeqsUpTo(S, n - 1)
       IN shorter \cup {Append(s, x) : s \in {t \in shorter : Len(t) = n - 1}, x \in S}

Range(s) == {s[k] : k \in 1..Len(s)}
NoDup(s) == Cardinality(Range(s)) = Len(s)

\* A listing returns objects of the namespace in some order, each at most once.
Listings(S) == {s \in SeqsUpTo(S, Cardinality(S)) : NoDup(s)}

\* The logs a pod may serve: the first n bytes of a text that differs from pod
\* to pod and from byte to byte (p1: A B A ..., the others: B A B ...).
LogText(p, n) == [k \in 1..n |-> IF (k % 2 = 1) = (p = "p1") THEN "A" ELSE "B"]
LogBodies(p) == {LogText(p, n) : n \in 0..MaxLogLen}

----------------------------------------------------------------------------
(* Strings and errors *)

\* filepath.Join on clean elements: empty elements are ignored, the others are
\* joined with a slash.
Join(a, b) ==
  IF a = <<>> THEN b
  ELSE IF b = <<>> THEN a
  ELSE a \o <<"/">> \o b

jobMatcherLabel == "job-name"
ClusterLabelName == "cnpg.io/cluster"
clusterName == "c1"

\* An error value: its message and the error at the bottom of its %w chain.
NoErr == [msg |-> <<>>, root |-> "nil"]
EnvErr(cause) == [msg |-> <<cause>>, root |-> cause]
\* Variant: the error is replaced by a new one that says nothing of its cause.
ErrorfDropsCause(prefix, e) == [msg |-> prefix, root |-> "errorString"]

\* fmt.Errorf(prefix + "%w", e)
Errorf(prefix, e) == [msg |-> prefix \o e.msg, root |-> e.root]

CtxErr == EnvErr("context canceled")

\* fmt.Errorf("could not add '%s' to zip: %w", path, e)
CouldNotAdd(path, e) == Errorf(<<"could not add '">> \o path \o <<"' to zip: ">>, e)

\* The directory entry of a section: logsdir + "/"
DirEntry(logsdir) == logsdir \o <<"/">>

\* Variant: the cluster and job passes name their files like the batch does.
PodEntryInfix(logsdir, p) == Join(logsdir, <<p, "-logs.jsonl">>)

\* filepath.Join(logsdir, pod.Name) + ".jsonl"
PodEntry(logsdir, p) == Join(logsdir, <<p>>) \o <<".jsonl">>

\* Variant: the batch names its files like the cluster and job passes do.
BatchPodEntryPlain(logsdir, p) == Join(logsdir, <<p>>) \o <<".jsonl">>

\* filepath.Join(logsdir, fmt.Sprintf("%s-logs.jsonl", pod.Name))
BatchPodEntry(logsdir, p) == Join(logsdir, <<p, "-logs.jsonl">>)

ClusterLogsDir == Join(dirname, <<"logs">>)
\* Variant: the job pass reuses the section of the cluster pass.
JobLogsDirAsLogs == Join(dirname, <<"logs">>)
JobLogsDir == Join(dirname, <<"job-logs">>)
BatchLogsDir == Join(dirname, <<name>>)

----------------------------------------------------------------------------
(* The archive writer and the platform client *)

\* zipper.Create(n) succeeding: a new empty entry, and the writer onto it.
ZipCreated(n) ==
  /\ zipper' = Append(zipper, [name |-> n, body |-> <<>>])
  /\ writer' = Len(zipper) + 1

\* Variant: the copy writes through the writer of the section's first Create.
ZipWrittenStale(b) ==
  zipper' = [zipper EXCEPT ![1].body = Append(@, b)]

\* writer.Write of one byte succeeding: the byte is appended to the writer's entry.
ZipWritten(b) ==
  zipper' = [zipper EXCEPT ![writer].body = Append(@, b)]

\* The errors a call that takes ctx can return.
ListErrors == IF cancelled THEN {CtxErr} ELSE {NoErr, EnvErr("boom")}
OpenErrors == IF cancelled THEN {CtxErr} ELSE {NoErr, EnvErr("open failed")}
\* logStream.Read inside io.Copy takes no ctx: after the cancellation the stream
\* still hands over what it holds (bytes or the end of the log) until the
\* transport has acted on the cancellation, and fails from then on.
ReadErrors == IF cancelled THEN {NoErr, CtxErr} ELSE {NoErr, EnvErr("read failed")}
CreateErrors == {NoErr, EnvErr("create failed")}
WriteErrors == {NoErr, EnvErr("write failed")}
CloseErrors == {NoErr, EnvErr("close failed")}

Listed(kind, label, value, e, items) ==
  listings' = Append(listings,
    [kind |-> kind, label |-> label, value |-> value, err |-> e, items |-> items])

\* A pass returns e to the bundle orchestrator (or to the caller of the batch).
Return(pass, e) ==
  /\ ret' = [ret EXCEPT ![pass] = [state |-> "returned", err |-> e]]
  /\ pc' = IF pass = "cluster" THEN "c_ret" ELSE IF pass = "job" THEN "j_ret" ELSE "done"

\* Calling streamPodLogs(ctx, pod, writer) from the pass `from`.
CallStreamPodLogs(from, p) ==
  /\ pc' = "s_open"
  /\ caller' = from
  /\ err' = NoErr
  /\ streams' = Append(streams,
       [pod |-> p, from |-> from, entry |-> Len(zipper) + 1, listed |-> Len(listings),
        opened |-> FALSE, closes |-> 0, copyErr |-> NoErr, innerErr |-> NoErr, returned |-> FALSE, result |-> NoErr])

AfterStream == IF caller = "cluster" THEN "c_after" ELSE IF caller = "job" THEN "j_after" ELSE "b_after"

CurStream == streams[Len(streams)]
SetStream(r) == streams' = [streams EXCEPT ![Len(streams)] = r]

----------------------------------------------------------------------------
(* streamPodLogs *)

\* Variant: the deferred Close is registered before the error of Stream is
\* looked at, so it also runs on a stream that was never obtained.
StreamOpenDefersFirst ==
  /\ pc = "s_open"
  /\ \E e \in OpenErrors :
       IF e # NoErr
       THEN /\ err' = Errorf(<<"could not stream the logs: ">>, e)
            /\ pc' = "s_close"
            /\ UNCHANGED <<logStream, streams>>
       ELSE /\ logStream' = [state |-> "open", rest |-> podLogs[CurStream.pod]]
            /\ pc' = "s_copy"
            /\ SetStream([CurStream EXCEPT !.opened = TRUE])
            /\ UNCHANGED err
  /\ UNCHANGED <<buf, op, dirname, name, podLogs, cancelled, caller, zipper, writer,
                 jobList, podList, i, j, ret, listings, cancelAt>>

\* logsRequest.Stream(ctx), and the return of its error
StreamOpen ==
  /\ pc = "s_open"
  /\ \E e \in OpenErrors :
       IF e # NoErr
       THEN /\ err' = Errorf(<<"could not stream the logs: ">>, e)
            /\ pc' = AfterStream
            /\ SetStream([CurStream EXCEPT !.returned = TRUE,
                            !.result = Errorf(<<"could not stream the logs: ">>, e)])
            /\ UNCHANGED logStream
       ELSE /\ logStream' = [state |-> "open", rest |-> podLogs[CurStream.pod]]
            /\ pc' = "s_copy"
            /\ SetStream([CurStream EXCEPT !.opened = TRUE])
            /\ UNCHANGED err
  /\ UNCHANGED <<buf, op, dirname, name, podLogs, cancelled, caller, zipper, writer,
                 jobList, podList, i, j, ret, listings, cancelAt>>

\* Variant: the result of io.Copy is dropped.
CopyResultIgnored(e) == NoErr

\* What io.Copy's result becomes in err
CopyResult(e) ==
  IF e # NoErr THEN Errorf(<<"could not send logs to writer: ">>, e) ELSE NoErr

\* io.Copy(writer, logStream): logStream.Read of the next chunk into the
\* buffer of the copy, or the end of the copy on an error or the end of the log
StreamCopyRead ==
  /\ pc = "s_copy"
  /\ \E re \in ReadErrors :
       IF re # NoErr
       THEN /\ err' = CopyResult(re)
            /\ SetStream([CurStream EXCEPT !.copyErr = re])
            /\ pc' = "s_close"
            /\ UNCHANGED <<logStream, buf>>
       ELSE IF logStream.rest = <<>>
       THEN /\ err' = CopyResult(NoErr)
            /\ pc' = "s_close"
            /\ UNCHANGED <<logStream, buf, streams>>
       ELSE /\ buf' = <<Head(logStream.rest)>>
            /\ logStream' = [logStream EXCEPT !.rest = Tail(@)]
            /\ pc' = "s_write"
            /\ UNCHANGED <<err, streams>>
  /\ UNCHANGED <<op, dirname, name, podLogs, cancelled, caller, zipper, writer,
                 jobList, podList, i, j, ret, listings, cancelAt>>

\* io.Copy(writer, logStream): writer.Write of the chunk that was read
StreamCopyWrite ==
  /\ pc = "s_write"
  /\ \E we \in WriteErrors :
       IF we # NoErr
       THEN /\ err' = CopyResult(we)
            /\ SetStream([CurStream EXCEPT !.copyErr = we])
            /\ pc' = "s_close"
            /\ UNCHANGED zipper
       ELSE /\ ZipWritten(buf[1])
            /\ pc' = "s_copy"
            /\ UNCHANGED <<err, streams>>
  /\ buf' = <<>>
  /\ UNCHANGED <<op, dirname, name, podLogs, cancelled, caller, writer,
                 jobList, podList, i, j, logStream, ret, listings, cancelAt>>

\* Variant: the error of Close replaces the error of the copy.
DeferredCloseOverrides(e, innerErr) ==
  IF innerErr # NoErr THEN innerErr ELSE e

\* The deferred function: err after logStream.Close() returned innerErr
DeferredClose(e, innerErr) ==
  IF e = NoErr /\ innerErr # NoErr THEN innerErr ELSE e

\* Variant: Close is called at the end of the function instead of deferred, so
\* a failed copy returns without it.
StreamCloseNotDeferred ==
  /\ pc = "s_close"
  /\ IF err # NoErr
     THEN /\ SetStream([CurStream EXCEPT !.returned = TRUE, !.result = err])
          /\ UNCHANGED <<err, logStream>>
     ELSE /\ \E innerErr \in CloseErrors :
               /\ err' = innerErr
               /\ SetStream([CurStream EXCEPT !.closes = @ + 1, !.innerErr = innerErr,
                               !.returned = TRUE, !.result = innerErr])
          /\ logStream' = [logStream EXCEPT !.state = "closed"]
  /\ pc' = AfterStream
  /\ UNCHANGED <<buf, op, dirname, name, podLogs, cancelled, caller, zipper, writer,
                 jobList, podList, i, j, ret, listings, cancelAt>>

\* return err, running the deferred logStream.Close()
StreamClose ==
  /\ pc = "s_close"
  /\ \E innerErr \in CloseErrors :
       /\ err' = DeferredClose(err, innerErr)
       /\ SetStream([CurStream EXCEPT !.closes = @ + 1, !.innerErr = innerErr,
                       !.returned = TRUE, !.result = DeferredClose(err, innerErr)])
  /\ logStream' = [logStream EXCEPT !.state = "closed"]
  /\ pc' = AfterStream
  /\ UNCHANGED <<buf, op, dirname, name, podLogs, cancelled, caller, zipper, writer,
                 jobList, podList, i, j, ret, listings, cancelAt>>

----------------------------------------------------------------------------
(* streamPodLogsToZip *)

\* logsdir := filepath.Join(dirname, name); zipper.Create(logsdir + "/")
BatchCreateDir ==
  /\ pc = "b_mkdir"
  /\ \E e \in CreateErrors :
       IF e # NoErr
       THEN /\ Return("batch", CouldNotAdd(BatchLogsDir, e))
            /\ UNCHANGED <<zipper, writer>>
       ELSE /\ ZipCreated(DirEntry(BatchLogsDir))
            /\ pc' = "b_loop"
            /\ UNCHANGED ret
  /\ UNCHANGED <<buf, op, dirname, name, podLogs, cancelled, caller, jobList, podList,
                 i, j, logStream, err, listings, streams, cancelAt>>

\* for i := range pods: zipper.Create(path), then the call of streamPodLogs
BatchLoop ==
  /\ pc = "b_loop"
  /\ IF i > Len(podList)
     THEN /\ Return("batch", NoErr)
          /\ UNCHANGED <<zipper, writer, caller, err, streams>>
     ELSE \E e \in CreateErrors :
            IF e # NoErr
            THEN /\ Return("batch", CouldNotAdd(BatchPodEntry(BatchLogsDir, podList[i]), e))
                 /\ UNCHANGED <<zipper, writer, caller, err, streams>>
            ELSE /\ ZipCreated(BatchPodEntry(BatchLogsDir, podList[i]))
                 /\ CallStreamPodLogs("batch", podList[i])
                 /\ UNCHANGED ret
  /\ UNCHANGED <<buf, op, dirname, name, podLogs, cancelled, jobList, podList,
                 i, j, logStream, listings, cancelAt>>

\* if err := streamPodLogs(...); err != nil { return err }
BatchAfterStream ==
  /\ pc = "b_after"
  /\ IF err # NoErr
     THEN Return("batch", err) /\ UNCHANGED i
     ELSE pc' = "b_loop" /\ i' = i + 1 /\ UNCHANGED ret
  /\ UNCHANGED <<buf, op, dirname, name, podLogs, cancelled, caller, zipper, writer,
                 jobList, podList, j, logStream, err, listings, streams, cancelAt>>

----------------------------------------------------------------------------
(* streamClusterLogsToZip *)

\* Variant: the pass goes straight to the listing; no directory entry is made.
ClusterCreateDirSkipped ==
  /\ pc = "c_mkdir"
  /\ pc' = "c_list"
  /\ UNCHANGED <<buf, op, dirname, name, podLogs, cancelled, caller, zipper, writer, jobList,
                 podList, i, j, logStream, err, ret, listings, streams, cancelAt>>

\* logsdir := filepath.Join(dirname, "logs"); zipper.Create(logsdir + "/")
ClusterCreateDir ==
  /\ pc = "c_mkdir"
  /\ \E e \in CreateErrors :
       IF e # NoErr
       THEN /\ Return("cluster", CouldNotAdd(ClusterLogsDir, e))
            /\ UNCHANGED <<zipper, writer>>
       ELSE /\ ZipCreated(DirEntry(ClusterLogsDir))
            /\ pc' = "c_list"
            /\ UNCHANGED ret
  /\ UNCHANGED <<buf, op, dirname, name, podLogs, cancelled, caller, jobList, podList,
                 i, j, logStream, err, listings, streams, cancelAt>>

\* plugin.Client.List(ctx, &podList, matchClusterName, ...)
ClusterList ==
  /\ pc = "c_list"
  /\ \E e \in ListErrors :
       IF e # NoErr
       THEN /\ Return("cluster", Errorf(<<"could not get cluster pods: ">>, e))
            /\ Listed("pods", ClusterLabelName, clusterName, e, <<>>)
            /\ UNCHANGED <<podList, i>>
       ELSE \E items \in Listings(PodNames) :
              /\ podList' = items
              /\ i' = 1
              /\ Listed("pods", ClusterLabelName, clusterName, NoErr, items)
              /\ pc' = "c_loop"
              /\ UNCHANGED ret
  /\ UNCHANGED <<buf, op, dirname, name, podLogs, cancelled, caller, zipper, writer,
                 jobList, j, logStream, err, streams, cancelAt>>

\* for _, pod := range podList.Items: zipper.Create(...), then the call of streamPodLogs
ClusterLoop ==
  /\ pc = "c_loop"
  /\ IF i > Len(podList)
     THEN /\ Return("cluster", NoErr)
          /\ UNCHANGED <<zipper, writer, caller, err, streams>>
     ELSE \E e \in CreateErrors :
            IF e # NoErr
            THEN /\ Return("cluster", CouldNotAdd(Join(ClusterLogsDir, <<podList[i]>>), e))
                 /\ UNCHANGED <<zipper, writer, caller, err, streams>>
            ELSE /\ ZipCreated(PodEntry(ClusterLogsDir, podList[i]))
                 /\ CallStreamPodLogs("cluster", podList[i])
                 /\ UNCHANGED ret
  /\ UNCHANGED <<buf, op, dirname, name, podLogs, cancelled, jobList, podList,
                 i, j, logStream, listings, cancelAt>>

\* Variant: the loop goes on to the next pod whatever streamPodLogs returned.
ClusterAfterStreamContinues ==
  /\ pc = "c_after"
  /\ pc' = "c_loop"
  /\ i' = i + 1
  /\ UNCHANGED <<buf, op, dirname, name, podLogs, cancelled, caller, zipper, writer,
                 jobList, podList, j, logStream, err, ret, listings, streams, cancelAt>>

\* err = streamPodLogs(ctx, pod, writer); if err != nil { return err }
ClusterAfterStream ==
  /\ pc = "c_after"
  /\ IF err # NoErr
     THEN Return("cluster", err) /\ UNCHANGED i
     ELSE pc' = "c_loop" /\ i' = i + 1 /\ UNCHANGED ret
  /\ UNCHANGED <<buf, op, dirname, name, podLogs, cancelled, caller, zipper, writer,
                 jobList, podList, j, logStream, err, listings, streams, cancelAt>>

----------------------------------------------------------------------------
(* streamClusterJobLogsToZip *)

\* Variant: the job pass lists the jobs without having made its directory entry.
JobCreateDirSkipped ==
  /\ pc = "j_mkdir"
  /\ pc' = "j_list"
  /\ UNCHANGED <<buf, op, dirname, name, podLogs, cancelled, caller, zipper, writer, jobList,
                 podList, i, j, logStream, err, ret, listings, streams, cancelAt>>

\* logsdir := filepath.Join(dirname, "job-logs"); zipper.Create(logsdir + "/")
JobCreateDir ==
  /\ pc = "j_mkdir"
  /\ \E e \in CreateErrors :
       IF e # NoErr
       THEN /\ Return("job", CouldNotAdd(JobLogsDir, e))
            /\ UNCHANGED <<zipper, writer>>
       ELSE /\ ZipCreated(DirEntry(JobLogsDir))
            /\ pc' = "j_list"
            /\ UNCHANGED ret
  /\ UNCHANGED <<buf, op, dirname, name, podLogs, cancelled, caller, jobList, podList,
                 i, j, logStream, err, listings, streams, cancelAt>>

\* plugin.Client.List(ctx, &jobList, matchClusterName, ...)
JobList ==
  /\ pc = "j_list"
  /\ \E e \in ListErrors :
       IF e # NoErr
       THEN /\ Return("job", Errorf(<<"could not get cluster jobs: ">>, e))
            /\ Listed("jobs", ClusterLabelName, clusterName, e, <<>>)
            /\ UNCHANGED <<jobList, j>>
       ELSE \E items \in Listings(JobNames) :
              /\ jobList' = items
              /\ j' = 1
              /\ Listed("jobs", ClusterLabelName, clusterName, NoErr, items)
              /\ pc' = "j_jobs"
              /\ UNCHANGED ret
  /\ UNCHANGED <<buf, op, dirname, name, podLogs, cancelled, caller, zipper, writer,
                 podList, i, logStream, err, streams, cancelAt>>

\* for _, job := range jobList.Items: plugin.Client.List(ctx, &podList, matchJobName, ...)
JobLoop ==
  /\ pc = "j_jobs"
  /\ IF j > Len(jobList)
     THEN /\ Return("job", NoErr)
          /\ UNCHANGED <<podList, i, listings>>
     ELSE \E e \in ListErrors :
            IF e # NoErr
            THEN /\ Return("job", Errorf(<<"could not get pods for job '", jobList[j], "': ">>, e))
                 /\ Listed("pods", jobMatcherLabel, jobList[j], e, <<>>)
                 /\ UNCHANGED <<podList, i>>
            ELSE \E items \in Listings(PodNames) :
                   /\ podList' = items
                   /\ i' = 1
                   /\ Listed("pods", jobMatcherLabel, jobList[j], NoErr, items)
                   /\ pc' = "j_pods"
                   /\ UNCHANGED ret
  /\ UNCHANGED <<buf, op, dirname, name, podLogs, cancelled, caller, zipper, writer,
                 jobList, j, logStream, err, streams, cancelAt>>

\* Variant: the pods of a job are processed from the last to the first.
JobPodLoopBackwards ==
  /\ pc = "j_pods"
  /\ IF i > Len(podList)
     THEN /\ pc' = "j_jobs"
          /\ j' = j + 1
          /\ UNCHANGED <<zipper, writer, caller, err, streams, ret>>
     ELSE /\ \E e \in CreateErrors :
               IF e # NoErr
               THEN /\ Return("job", CouldNotAdd(Join(JobLogsDir, <<podList[Len(podList) + 1 - i]>>), e))
                    /\ UNCHANGED <<zipper, writer, caller, err, streams>>
               ELSE /\ ZipCreated(PodEntry(JobLogsDir, podList[Len(podList) + 1 - i]))
                    /\ CallStreamPodLogs("job", podList[Len(podList) + 1 - i])
                    /\ UNCHANGED ret
          /\ UNCHANGED j
  /\ UNCHANGED <<buf, op, dirname, name, podLogs, cancelled, jobList, podList,
                 i, logStream, listings, cancelAt>>

\* Variant: the job pass skips a pod the cluster pass has already written.
JobPodLoopDedups ==
  /\ pc = "j_pods"
  /\ IF i > Len(podList)
     THEN /\ pc' = "j_jobs"
          /\ j' = j + 1
          /\ UNCHANGED <<zipper, writer, caller, err, streams, ret, i>>
     ELSE IF \E k \in 1..Len(zipper) : zipper[k].name = PodEntry(ClusterLogsDir, podList[i])
     THEN /\ i' = i + 1
          /\ UNCHANGED <<pc, j, zipper, writer, caller, err, streams, ret>>
     ELSE /\ \E e \in CreateErrors :
               IF e # NoErr
               THEN /\ Return("job", CouldNotAdd(Join(JobLogsDir, <<podList[i]>>), e))
                    /\ UNCHANGED <<zipper, writer, caller, err, streams>>
               ELSE /\ ZipCreated(PodEntry(JobLogsDir, podList[i]))
                    /\ CallStreamPodLogs("job", podList[i])
                    /\ UNCHANGED ret
          /\ UNCHANGED <<i, j>>
  /\ UNCHANGED <<buf, op, dirname, name, podLogs, cancelled, jobList, podList,
                 logStream, listings, cancelAt>>

\* for _, pod := range podList.Items: zipper.Create(...), then the call of streamPodLogs
JobPodLoop ==
  /\ pc = "j_pods"
  /\ IF i > Len(podList)
     THEN /\ pc' = "j_jobs"
          /\ j' = j + 1
          /\ UNCHANGED <<zipper, writer, caller, err, streams, ret>>
     ELSE /\ \E e \in CreateErrors :
               IF e # NoErr
               THEN /\ Return("job", CouldNotAdd(Join(JobLogsDir, <<podList[i]>>), e))
                    /\ UNCHANGED <<zipper, writer, caller, err, streams>>
               ELSE /\ ZipCreated(PodEntry(JobLogsDir, podList[i]))
                    /\ CallStreamPodLogs("job", podList[i])
                    /\ UNCHANGED ret
          /\ UNCHANGED j
  /\ UNCHANGED <<buf, op, dirname, name, podLogs, cancelled, jobList, podList,
                 i, logStream, listings, cancelAt>>

\* Variant: on a failure the job pass drops the entry it was writing.
JobAfterStreamCleansUp ==
  /\ pc = "j_after"
  /\ IF err # NoErr
     THEN /\ Return("job", err)
          /\ zipper' = SubSeq(zipper, 1, Len(zipper) - 1)
          /\ UNCHANGED i
     ELSE pc' = "j_pods" /\ i' = i + 1 /\ UNCHANGED <<ret, zipper>>
  /\ UNCHANGED <<buf, op, dirname, name, podLogs, cancelled, caller, writer,
                 jobList, podList, j, logStream, err, listings, streams, cancelAt>>

\* err = streamPodLogs(ctx, pod, writer); if err != nil { return err }
JobAfterStream ==
  /\ pc = "j_after"
  /\ IF err # NoErr
     THEN Return("job", err) /\ UNCHANGED i
     ELSE pc' = "j_pods" /\ i' = i + 1 /\ UNCHANGED ret
  /\ UNCHANGED <<buf, op, dirname, name, podLogs, cancelled, caller, zipper, writer,
                 jobList, podList, j, logStream, err, listings, streams, cancelAt>>

----------------------------------------------------------------------------
(* The bundle orchestrator, the cancellation of ctx, and the specification *)

\* The cluster pass, then the job pass; stop at the first error.
Orchestrator ==
  /\ \/ /\ pc = "c_ret"
        /\ IF ret["cluster"].err # NoErr
           THEN pc' = "done" /\ UNCHANGED ret
           ELSE /\ pc' = "j_mkdir"
                /\ ret' = [ret EXCEPT !["job"].state = "running"]
     \/ /\ pc = "j_ret"
        /\ pc' = "done"
        /\ UNCHANGED ret
  /\ UNCHANGED <<buf, op, dirname, name, podLogs, cancelled, caller, zipper, writer,
                 jobList, podList, i, j, logStream, err, listings, streams, cancelAt>>

\* What the orchestrator (or the caller of the batch) returns.
Result ==
  IF op = "batch" THEN ret["batch"].err
  ELSE IF ret["cluster"].err # NoErr THEN ret["cluster"].err
  ELSE ret["job"].err

\* ctx is cancelled, at any moment before the collection has returned.
Cancel ==
  /\ ~cancelled
  /\ pc # "done"
  /\ cancelled' = TRUE
  /\ cancelAt' = [fired |-> TRUE, pc |-> pc, zipper |-> zipper, podList |-> podList,
                  i |-> i, err |-> err]
  /\ UNCHANGED <<buf, op, dirname, name, podLogs, pc, caller, zipper, writer,
                 jobList, podList, i, j, logStream, err, ret, listings, streams>>

Idle == [state |-> "idle", err |-> NoErr]
Running == [state |-> "running", err |-> NoErr]

Init ==
  /\ op \in {"collect", "batch"}
  /\ dirname \in Roots
  /\ name \in Sections
  /\ podLogs \in {f \in [PodNames -> UNION {LogBodies(p) : p \in PodNames}] :
                    \A p \in PodNames : f[p] \in LogBodies(p)}
  /\ cancelled = FALSE
  /\ pc = IF op = "collect" THEN "c_mkdir" ELSE "b_mkdir"
  /\ caller = "none"
  /\ zipper = <<>>
  /\ writer = 0
  /\ jobList = <<>>
  /\ podList \in IF op = "batch" THEN Listings(PodNames) ELSE {<<>>}
  /\ i = 1
  /\ j = 1
  /\ logStream = [state |-> "none", rest |-> <<>>]
  /\ buf = <<>>
  /\ err = NoErr
  /\ ret = [p \in {"cluster", "job", "batch"} |->
              IF (p = "cluster" /\ op = "collect") \/ (p = "batch" /\ op = "batch")
              THEN Running ELSE Idle]
  /\ listings = <<>>
  /\ streams = <<>>
  /\ cancelAt = [fired |-> FALSE, pc |-> "", zipper |-> <<>>, podList |-> <<>>,
                 i |-> 0, err |-> NoErr]

Next ==
  \/ StreamOpen
  \/ StreamCopyRead
  \/ StreamCopyWrite
  \/ StreamClose
  \/ BatchCreateDir
  \/ BatchLoop
  \/ BatchAfterStream
  \/ ClusterCreateDir
  \/ ClusterList
  \/ ClusterLoop
  \/ ClusterAfterStream
  \/ JobCreateDir
  \/ JobList
  \/ JobLoop
  \/ JobPodLoop
  \/ JobAfterStream
  \/ Orchestrator
  \/ Cancel

Spec == Init /\ [][Next]_vars

----------------------------------------------------------------------------
(* The archive layout, as the specification words it *)

IsPrefix(a, b) == Len(a) <= Len(b) /\ SubSeq(b, 1, Len(a)) = a
EndsWith(b, a) == Len(a) <= Len(b) /\ SubSeq(b, Len(b) - Len(a) + 1, Len(b)) = a

\* <root>/<section>/
SectionDir(section) == dirname \o <<"/", section, "/">>
\* <root>/<section>/<pod>.jsonl
SectionFile(section, p) == dirname \o <<"/", section, "/", p, ".jsonl">>

Entries == 1..Len(zipper)

\* The names of the entries of an archive, in creation order.
Names(z) == [k \in 1..Len(z) |-> z[k].name]
Under(section) == {k \in Entries : IsPrefix(SectionDir(section), zipper[k].name)}
Named(n) == {k \in Entries : zipper[k].name = n}

Returned(pass) == ret[pass].state = "returned"
ReturnedOk(pass) == Returned(pass) /\ ret[pass].err = NoErr

\* The listings issued so far with the given label.
ListingsBy(label) == {k \in 1..Len(listings) : listings[k].label = label}

----------------------------------------------------------------------------
(* C1 *)

\* Within a section, the directory entry is created exactly once and before
\* every other entry of the section.
DirFirstAndOnce(section) ==
  Under(section) # {} =>
    /\ Cardinality(Named(SectionDir(section))) = 1
    /\ \A k \in Under(section) : \A d \in Named(SectionDir(section)) : d <= k

\* C1: in a collection (cluster pass, then job pass, on one archive and root),
\* at every moment the entries created so far are such that every entry under
\* <root>/logs/ was created before every entry under <root>/job-logs/, and in
\* each of the two sections the directory entry was created exactly once and
\* before every file entry of the section.
C1_SectionOrder ==
  op = "collect" =>
    /\ \A a \in Under("logs") : \A b \in Under("job-logs") : a < b
    /\ DirFirstAndOnce("logs")
    /\ DirFirstAndOnce("job-logs")

C1_Witness ==
  /\ op = "collect"
  /\ pc = "done"
  /\ Result = NoErr
  /\ Cardinality(Under("logs")) = 3
  /\ Cardinality(Under("job-logs")) >= 3

----------------------------------------------------------------------------
(* C2 *)

\* The pods the cluster-label pod listing returned.
ClusterPods == listings[1].items

\* C2: once streamClusterLogsToZip has returned without error, for every pod p
\* the cluster-label pod listing returned, the archive holds exactly one entry
\* named <root>/logs/<p>.jsonl, and its body is, byte for byte and in order,
\* the log stream served for p.
C2_ClusterLogsComplete ==
  ReturnedOk("cluster") =>
    \A k \in 1..Len(ClusterPods) :
      LET p == ClusterPods[k]
      IN /\ Cardinality(Named(SectionFile("logs", p))) = 1
         /\ \A e \in Named(SectionFile("logs", p)) : zipper[e].body = podLogs[p]

C2_Witness ==
  /\ ReturnedOk("cluster")
  /\ Len(ClusterPods) = 2
  /\ \A p \in PodNames : Len(podLogs[p]) = MaxLogLen
  /\ \A p \in PodNames : \E e \in Named(SectionFile("logs", p)) : zipper[e].body = podLogs[p]

----------------------------------------------------------------------------
(* C3 *)

\* C3: once streamClusterJobLogsToZip has returned without error, for every job
\* the cluster-label job listing returned and every pod the job-name pod
\* listing of that job returned, the archive holds an entry named
\* <root>/job-logs/<p>.jsonl.
C3_JobLogsPresent ==
  ReturnedOk("job") =>
    /\ \A n \in 1..Len(jobList) :
         \E k \in ListingsBy(jobMatcherLabel) : listings[k].value = jobList[n]
    /\ \A k \in ListingsBy(jobMatcherLabel) :
         \A n \in 1..Len(listings[k].items) :
           Named(SectionFile("job-logs", listings[k].items[n])) # {}

C3_Witness ==
  /\ ReturnedOk("job")
  /\ Len(jobList) = 2
  /\ \A k \in ListingsBy(jobMatcherLabel) : Len(listings[k].items) >= 1
  /\ \E a, b \in ListingsBy(jobMatcherLabel) : listings[a].items # listings[b].items
  /\ \A p \in PodNames : Named(SectionFile("job-logs", p)) # {}

----------------------------------------------------------------------------
(* C4 *)

Calls == 1..Len(streams)
InStreamPodLogs == pc \in {"s_open", "s_copy", "s_write", "s_close"}
\* The calls of streamPodLogs that have returned.
ReturnedCalls == {k \in Calls : k < Len(streams) \/ ~InStreamPodLogs}
\* The log streams that were opened and not closed yet.
OpenStreams == {k \in Calls : streams[k].opened /\ streams[k].closes = 0}

\* C4: a log stream that streamPodLogs opened has been closed exactly once
\* when streamPodLogs returns, whichever way it returns; at most one log stream
\* is open at any moment, and none is when the collection has returned.
C4_StreamReleased ==
  /\ \A k \in Calls : streams[k].closes <= 1
  /\ \A k \in ReturnedCalls : streams[k].opened => streams[k].closes = 1
  /\ Cardinality(OpenStreams) <= 1
  /\ (OpenStreams # {}) = (logStream.state = "open")
  /\ pc = "done" => OpenStreams = {}

C4_Witness ==
  /\ pc = "done"
  /\ \E a, c \in Calls :
       /\ streams[a].opened /\ streams[a].result = NoErr /\ streams[a].closes = 1
       /\ streams[c].opened /\ streams[c].copyErr.root = "context canceled"
       /\ streams[c].closes = 1

----------------------------------------------------------------------------
(* C5 *)

\* C5: a call of streamPodLogs that opened its stream returns the failure of
\* the copy if the copy failed, whether or not Close failed too; the failure of
\* Close if only Close failed; and no error if neither failed.
C5_CopyErrorFirst ==
  \A k \in Calls :
    (streams[k].returned /\ streams[k].opened) =>
      streams[k].result =
        IF streams[k].copyErr # NoErr
        THEN Errorf(<<"could not send logs to writer: ">>, streams[k].copyErr)
        ELSE streams[k].innerErr

C5_Witness ==
  \E a, c \in Calls :
    /\ streams[a].returned /\ streams[a].opened /\ streams[a].result = NoErr
    /\ streams[c].returned /\ streams[c].copyErr # NoErr /\ streams[c].innerErr # NoErr
    /\ streams[c].result.root = streams[c].copyErr.root

----------------------------------------------------------------------------
(* C6 *)

\* The calls of streamPodLogs that returned an error.
FailedCalls == {k \in Calls : streams[k].returned /\ streams[k].result # NoErr}

\* The entry a pass creates for pod p.
EntryOf(pass, p) ==
  IF pass = "cluster" THEN SectionFile("logs", p)
  ELSE IF pass = "job" THEN SectionFile("job-logs", p)
  ELSE dirname \o <<"/", name, "/", p, "-logs.jsonl">>

\* C6: in each of the three operations, once streaming a pod has failed, the
\* operation returns that failure and does nothing more: the entries of the
\* pods before it hold their whole logs, the entry of the failing pod exists
\* and holds a prefix of its log (all of it when only Close failed, none of it
\* when the stream could not be opened), and since the call no entry was
\* created, no listing was issued and no other log stream was asked for.
C6_FailFast ==
  \A f \in FailedCalls :
    LET s == streams[f]
    IN /\ f = Len(streams)
       /\ Len(zipper) = s.entry
       /\ Len(listings) = s.listed
       /\ zipper[s.entry].name = EntryOf(s.from, s.pod)
       /\ IsPrefix(zipper[s.entry].body, podLogs[s.pod])
       /\ \A k \in 1..(f - 1) :
            /\ zipper[streams[k].entry].name = EntryOf(streams[k].from, streams[k].pod)
            /\ zipper[streams[k].entry].body = podLogs[streams[k].pod]
       /\ pc \notin {"c_after", "j_after", "b_after"} =>
            /\ Returned(s.from)
            /\ ret[s.from].err = s.result
       /\ pc = "done" => Result = s.result

C6_Witness ==
  /\ pc = "done"
  /\ \E f \in FailedCalls :
       /\ f >= 2
       /\ streams[f].copyErr.root = "read failed"
       /\ zipper[streams[f].entry].body # podLogs[streams[f].pod]
       /\ zipper[streams[f].entry].body # <<>>
       /\ Result = streams[f].result

----------------------------------------------------------------------------
(* C7 *)

\* ctx was cancelled after the log of a pod had been streamed without error
\* and before the entry of the next pod of the same list was created.
CancelledBetweenPods ==
  /\ op = "collect"
  /\ cancelAt.fired
  /\ \/ /\ cancelAt.pc \in {"c_after", "j_after"}
        /\ cancelAt.err = NoErr
        /\ cancelAt.i < Len(cancelAt.podList)
     \/ /\ cancelAt.pc \in {"c_loop", "j_pods"}
        /\ cancelAt.i > 1
        /\ cancelAt.i <= Len(cancelAt.podList)

\* C7: if, in a collection, ctx is cancelled after the entry of a pod has been
\* completely written and before the next pod is processed, no archive entry
\* is created any more and the collection returns the cancellation.
C7_NoEntryAfterCancel ==
  CancelledBetweenPods =>
    /\ Len(zipper) = Len(cancelAt.zipper)
    /\ pc = "done" => Result.root = "context canceled"

----------------------------------------------------------------------------
(* C8 *)

\* C8: if ctx is cancelled while the log of a pod is being copied, the copy
\* stops and no entry is created any more for a later pod or section: the
\* entry of that pod stays the last one and holds a prefix of the pod's log,
\* and its stream is closed when streamPodLogs returns.
C8_CancelDuringCopy ==
  (cancelAt.fired /\ cancelAt.pc \in {"s_copy", "s_write"}) =>
    /\ Names(zipper) = Names(cancelAt.zipper)
    /\ \A c \in Calls :
         streams[c].entry = Len(cancelAt.zipper) =>
           IsPrefix(zipper[streams[c].entry].body, podLogs[streams[c].pod])
    /\ \A c \in Calls : streams[c].returned => streams[c].closes = 1 \/ ~streams[c].opened

----------------------------------------------------------------------------
(* C9 *)

\* C9: the error that the cluster pass or the job pass returns for a failure
\* of streamPodLogs (opening, copying or closing the stream) names, in its
\* message, the pod whose log was being streamed.
C9_StreamErrorNamesPod ==
  \A f \in FailedCalls :
    (streams[f].from \in {"cluster", "job"} /\ Returned(streams[f].from)) =>
      streams[f].pod \in Range(ret[streams[f].from].err.msg)

----------------------------------------------------------------------------
(* C10 *)

\* Both passes obtained their lists, and every list of pods was empty.
OnlyEmptyPodLists ==
  /\ \E k \in 1..Len(listings) : listings[k].kind = "jobs"
  /\ \A k \in 1..Len(listings) :
       /\ listings[k].err = NoErr
       /\ listings[k].kind = "pods" => listings[k].items = <<>>

\* C10: when the cluster pass and the job pass have both run, each got the
\* lists it asked for and every list of pods was empty, the archive holds both
\* directory entries, <root>/logs/ and <root>/job-logs/.
C10_EmptyDirsExist ==
  (op = "collect" /\ Returned("cluster") /\ Returned("job") /\ OnlyEmptyPodLists) =>
    /\ Named(SectionDir("logs")) # {}
    /\ Named(SectionDir("job-logs")) # {}

C10_Witness ==
  /\ op = "collect"
  /\ pc = "done"
  /\ Returned("cluster")
  /\ Returned("job")
  /\ OnlyEmptyPodLists
  /\ Len(jobList) = 2
  /\ Len(listings) = 4
  /\ zipper = << [name |-> SectionDir("logs"), body |-> <<>>],
                 [name |-> SectionDir("job-logs"), body |-> <<>>] >>

----------------------------------------------------------------------------
(* C11 *)

\* The files of section `section` for the pods of a list, in the list's order.
FilesOf(section, items) == [k \in 1..Len(items) |-> SectionFile(section, items[k])]

\* The job-logs files for the pods of the job-name listings k, k+1, ... issued so far.
RECURSIVE JobFilesFrom(_)
JobFilesFrom(k) ==
  IF k > Len(listings) THEN <<>>
  ELSE (IF listings[k].label = jobMatcherLabel
        THEN FilesOf("job-logs", listings[k].items) ELSE <<>>) \o JobFilesFrom(k + 1)

\* A collection has run to its end without error, and its cluster-label pod
\* listing returned no pod.
CompleteWithNoClusterPod ==
  /\ op = "collect"
  /\ pc = "done"
  /\ Result = NoErr
  /\ ClusterPods = <<>>

\* C11 as stated: whenever the cluster-label pod listing returns an empty
\* list, a complete collection leaves in the archive only the two directory
\* markers <root>/logs/ and <root>/job-logs/, whatever the jobs and their pods.
C11_OnlyTwoMarkers ==
  CompleteWithNoClusterPod =>
    Names(zipper) = <<SectionDir("logs"), SectionDir("job-logs")>>

\* C11 as amended: whenever the cluster-label pod listing returns an empty
\* list, a complete collection leaves in the archive the two directory markers,
\* no file entry under <root>/logs/, and after the markers exactly the
\* <root>/job-logs/<pod>.jsonl entries of the pods the job-name listings
\* returned; so it holds only the two markers exactly when no job has a pod.
C11_MarkersAndJobFiles ==
  CompleteWithNoClusterPod =>
    /\ Names(zipper) =
         <<SectionDir("logs"), SectionDir("job-logs")>> \o JobFilesFrom(1)
    /\ Under("logs") = Named(SectionDir("logs"))
    /\ (Len(zipper) = 2) = (\A k \in ListingsBy(jobMatcherLabel) : listings[k].items = <<>>)

C11_Witness ==
  /\ CompleteWithNoClusterPod
  /\ Len(jobList) = 2
  /\ Len(zipper) = 5
  /\ \E k \in ListingsBy(jobMatcherLabel) : listings[k].items = <<"p2">>

----------------------------------------------------------------------------
(* C12 *)

\* C12: within one pass (the cluster pass, or the job pass over all its jobs)
\* a pod contributes at most one entry: no name <root>/<section>/<pod>.jsonl
\* is created twice in a section, whatever job list and per-job pod lists the
\* platform client returns.
C12_OneEntryPerPod ==
  op = "collect" =>
    \A a, b \in Entries : zipper[a].name = zipper[b].name => a = b

----------------------------------------------------------------------------
(* C13 *)

\* The pods returned both by the cluster-label listing and by a job-name listing.
PodsInBothPasses ==
  {p \in Range(ClusterPods) :
     \E k \in ListingsBy(jobMatcherLabel) : p \in Range(listings[k].items)}

\* C13: after a collection that ran to its end without error, a pod returned
\* both by the cluster-label pod listing and by the job-name pod listing of a
\* job has two entries, <root>/logs/<pod>.jsonl and <root>/job-logs/<pod>.jsonl,
\* each holding its log: the job pass does not skip what the cluster pass wrote.
C13_BothSections ==
  (op = "collect" /\ pc = "done" /\ Result = NoErr) =>
    \A p \in PodsInBothPasses :
      /\ \E a \in Named(SectionFile("logs", p)) : zipper[a].body = podLogs[p]
      /\ \E b \in Named(SectionFile("job-logs", p)) : zipper[b].body = podLogs[p]
      /\ Named(SectionFile("logs", p)) \cap Named(SectionFile("job-logs", p)) = {}

C13_Witness ==
  /\ op = "collect"
  /\ pc = "done"
  /\ Result = NoErr
  /\ "p1" \in PodsInBothPasses
  /\ Len(podLogs["p1"]) = MaxLogLen
  /\ Named(SectionFile("logs", "p1")) # {}
  /\ Named(SectionFile("job-logs", "p1")) # {}

----------------------------------------------------------------------------
(* C14 *)

\* A step creates one entry: a new empty entry at the end, the others untouched.
CreatesEntry ==
  /\ Len(zipper') = Len(zipper) + 1
  /\ SubSeq(zipper', 1, Len(zipper)) = zipper
  /\ zipper'[Len(zipper')].body = <<>>

\* A step writes bytes: they are appended to the newest entry, the others untouched.
WritesToNewest ==
  /\ Len(zipper') = Len(zipper)
  /\ Len(zipper) > 0
  /\ \A k \in 1..(Len(zipper) - 1) : zipper'[k] = zipper[k]
  /\ zipper'[Len(zipper)].name = zipper[Len(zipper)].name
  /\ IsPrefix(zipper[Len(zipper)].body, zipper'[Len(zipper)].body)

\* C14: entries are never interleaved: every step that changes the archive
\* either appends bytes to the entry created last, or creates one new entry,
\* and it creates one only when no copy is under way: every earlier call of
\* streamPodLogs has returned and no log stream is open.
C14_NoInterleaving ==
  [][ zipper' # zipper =>
        \/ WritesToNewest
        \/ /\ CreatesEntry
           /\ ~InStreamPodLogs
           /\ OpenStreams = {}
           /\ logStream.state # "open"
           /\ \A k \in Calls : streams[k].returned ]_vars

C14_Witness ==
  /\ pc = "s_copy"
  /\ Len(streams) = 2
  /\ streams[1].returned
  /\ streams[1].closes = 1
  /\ zipper[streams[1].entry].body = podLogs[streams[1].pod]
  /\ Len(zipper[streams[1].entry].body) = MaxLogLen
  /\ Len(zipper[Len(zipper)].body) = 1

----------------------------------------------------------------------------
(* C15 *)

\* A file entry of the job-logs section.
IsJobFile(n) == IsPrefix(SectionDir("job-logs"), n) /\ n # SectionDir("job-logs")

\* C15: once the job pass has returned without error, the pod listings it
\* issued are those of the jobs of the job listing, in that order, and the
\* file entries under <root>/job-logs/, in creation order, are the pods of
\* the first job in the order of its listing, then those of the second job,
\* and so on; nothing is sorted or reordered.
C15_JobListingOrder ==
  ReturnedOk("job") =>
    /\ Len(listings) = 2 + Len(jobList)
    /\ \A n \in 1..Len(jobList) :
         /\ listings[2 + n].label = jobMatcherLabel
         /\ listings[2 + n].value = jobList[n]
    /\ SelectSeq(Names(zipper), IsJobFile) = JobFilesFrom(1)

C15_Witness ==
  /\ ReturnedOk("job")
  /\ jobList = <<"j2", "j1">>
  /\ listings[3].items = <<"p2", "p1">>
  /\ listings[4].items = <<"p1">>
  /\ SelectSeq(Names(zipper), IsJobFile) =
       << SectionFile("job-logs", "p2"), SectionFile("job-logs", "p1"),
          SectionFile("job-logs", "p1") >>

----------------------------------------------------------------------------
(* C16 *)

\* <rootDir>/<section>/ and <rootDir>/<section>/<pod>-logs.jsonl
BatchDir == dirname \o <<"/", name, "/">>
BatchFile(p) == dirname \o <<"/", name, "/", p, "-logs.jsonl">>

\* What streamPodLogsToZip creates when nothing fails: the directory entry,
\* then one file per pod of its argument, in the argument's order.
BatchEntries == <<BatchDir>> \o [k \in 1..Len(podList) |-> BatchFile(podList[k])]

\* The names the cluster pass and the job pass may give an entry.
PassNames ==
  {SectionDir(sec) : sec \in {"logs", "job-logs"}}
    \cup {SectionFile(sec, p) : sec \in {"logs", "job-logs"}, p \in PodNames}

\* C16: streamPodLogsToZip(pods, rootDir, section) first creates the entry
\* <rootDir>/<section>/, also for an empty pods, and returns the error without
\* touching a pod if that fails; then, pod by pod in the order of pods, it
\* creates <rootDir>/<section>/<pod>-logs.jsonl and streams the pod's log into
\* that entry.  The cluster pass and the job pass name theirs <pod>.jsonl.
C16_BatchLayout ==
  /\ op = "batch" =>
       /\ IsPrefix(Names(zipper), BatchEntries)
       /\ zipper = <<>> => streams = <<>>
       /\ (Returned("batch") /\ zipper = <<>>) =>
            ret["batch"].err = Errorf(<<"could not add '">> \o dirname \o <<"/", name>>
                                        \o <<"' to zip: ">>, EnvErr("create failed"))
       /\ \A k \in Calls :
            /\ streams[k].pod = podList[k]
            /\ streams[k].entry = k + 1
            /\ IsPrefix(zipper[k + 1].body, podLogs[podList[k]])
       /\ ReturnedOk("batch") =>
            /\ Names(zipper) = BatchEntries
            /\ \A k \in 1..Len(podList) : zipper[k + 1].body = podLogs[podList[k]]
  /\ op = "collect" => \A k \in Entries : zipper[k].name \in PassNames

C16_Witness ==
  /\ op = "batch"
  /\ ReturnedOk("batch")
  /\ podList = <<"p2", "p1">>
  /\ \A p \in PodNames : Len(podLogs[p]) = MaxLogLen
  /\ Names(zipper) = << BatchDir, BatchFile("p2"), BatchFile("p1") >>

----------------------------------------------------------------------------
(* C17 *)

\* The listings that failed, and the pass that issued a listing.
FailedListings == {k \in 1..Len(listings) : listings[k].err # NoErr}
PassOf(k) ==
  IF listings[k].kind = "pods" /\ listings[k].label = ClusterLabelName
  THEN "cluster" ELSE "job"
\* The listings issued with the same selector as listing k.
SameListing(k) ==
  {m \in 1..Len(listings) :
     /\ listings[m].kind = listings[k].kind
     /\ listings[m].label = listings[k].label
     /\ listings[m].value = listings[k].value}

\* C17: a listing that fails is neither swallowed nor retried: the pass
\* returns at once an error that wraps the failure, so that its message
\* contains the failure's (for example "boom"); the listing was issued once
\* and no listing follows it.  For the pod listing of a job, the message names
\* the job as well, and the later jobs get no listing.
C17_ListingFailureSurfaced ==
  \A k \in FailedListings :
    LET e == ret[PassOf(k)].err
    IN /\ k = Len(listings)
       /\ Cardinality(SameListing(k)) = 1
       /\ Returned(PassOf(k))
       /\ e.root = listings[k].err.root
       /\ e # listings[k].err
       /\ EndsWith(e.msg, listings[k].err.msg)
       /\ listings[k].label = jobMatcherLabel =>
            /\ listings[k].value = jobList[j]
            /\ listings[k].value \in Range(e.msg)
            /\ Cardinality(ListingsBy(jobMatcherLabel)) = j
       /\ pc = "done" => Result = e

C17_Witness ==
  /\ pc = "done"
  /\ Len(listings) = 4
  /\ listings[4].err = EnvErr("boom")
  /\ listings[4].value = "j1"
  /\ jobList = <<"j2", "j1">>
  /\ Result = [msg |-> <<"could not get pods for job '", "j1", "': ", "boom">>, root |-> "boom"]

----------------------------------------------------------------------------
(* C18 *)

\* The first listing of each pass: the cluster-label listing of pods, and the
\* cluster-label listing of jobs.
ClusterPodListings == {k \in ListingsBy(ClusterLabelName) : listings[k].kind = "pods"}
JobListings == {k \in ListingsBy(ClusterLabelName) : listings[k].kind = "jobs"}

\* C18: in the cluster pass and in the job pass the directory entry of the
\* section is in the archive from the moment the pass issues its first
\* listing; when that listing fails the archive holds the directory entry of
\* the section and no file entry of the section.
C18_DirBeforeListing ==
  /\ ClusterPodListings # {} => Named(SectionDir("logs")) # {}
  /\ JobListings # {} => Named(SectionDir("job-logs")) # {}
  /\ \A k \in ClusterPodListings \cap FailedListings :
       /\ Under("logs") = Named(SectionDir("logs"))
       /\ Cardinality(Under("logs")) = 1
  /\ \A k \in JobListings \cap FailedListings :
       /\ Under("job-logs") = Named(SectionDir("job-logs"))
       /\ Cardinality(Under("job-logs")) = 1

C18_Witness ==
  /\ pc = "done"
  /\ JobListings \cap FailedListings # {}
  /\ Len(zipper) = 4
  /\ zipper[4].name = SectionDir("job-logs")
  /\ Result.root = "boom"

----------------------------------------------------------------------------
(* C19 *)

\* The entries a collection creates when nothing fails, as far as its
\* listings so far tell: the logs directory, the cluster pods, the job-logs
\* directory, then the pods of each job listed.
ExpectedEntries ==
  <<SectionDir("logs")>>
    \o (IF listings = <<>> THEN <<>> ELSE FilesOf("logs", listings[1].items))
    \o <<SectionDir("job-logs")>>
    \o JobFilesFrom(1)

\* Whenever the pod listing of a job has been issued, every pod handled before
\* it had been streamed to its end without error.
ListedLazily ==
  \A k \in ListingsBy(jobMatcherLabel) :
    \A c \in Calls :
      streams[c].listed < k =>
        /\ streams[c].returned
        /\ streams[c].result = NoErr
        /\ zipper[streams[c].entry].body = podLogs[streams[c].pod]

\* No step removes an entry, renames one or takes bytes back.
NothingUndone ==
  /\ IsPrefix(Names(zipper), Names(zipper'))
  /\ \A k \in Entries : IsPrefix(zipper[k].body, zipper'[k].body)

\* C19: the job pass lists the pods of a job only after every pod of the
\* earlier jobs has been streamed completely, and nothing is ever undone:
\* entries stay in the archive through every step, failing ones included, so
\* that at a failure the sequence of entries is a prefix of the one the run
\* would have produced without the failure.
C19_LazyAndNoUndo ==
  [][ /\ NothingUndone
      /\ ListedLazily'
      /\ (op = "collect" => IsPrefix(Names(zipper'), ExpectedEntries')) ]_vars

C19_Witness ==
  /\ op = "collect"
  /\ pc = "done"
  /\ Result.root = "read failed"
  /\ Cardinality(ListingsBy(jobMatcherLabel)) = 2
  /\ Len(jobList) = 2
  /\ Len(streams) = 3
  /\ streams[3].from = "job"
  /\ streams[2].from = "job"
  /\ streams[3].listed = 4
  /\ streams[2].listed = 3
  /\ Len(listings[4].items) = 2
  /\ Len(zipper) = 5
  /\ Len(zipper[5].body) = 1

----------------------------------------------------------------------------
(* C20 *)

\* The calls of streamPodLogs that returned because Stream failed.
OpenFailures == {c \in Calls : streams[c].returned /\ ~streams[c].opened}

\* The calls of streamPodLogs that streamed an empty log to its end.
EmptyLogCalls ==
  {c \in Calls : /\ streams[c].returned
                 /\ streams[c].opened
                 /\ streams[c].result = NoErr
                 /\ podLogs[streams[c].pod] = <<>>}

\* C20: the entry of a pod is in the archive before its log stream is opened;
\* when opening fails the entry is there with no byte in it, exactly as the
\* entry of a pod with an empty log, Close is not called on the stream that
\* was never obtained, and the failure of Stream is what is returned.
C20_OpenFailure ==
  /\ \A c \in Calls :
       /\ streams[c].entry \in Entries
       /\ zipper[streams[c].entry].name = EntryOf(streams[c].from, streams[c].pod)
       /\ ~streams[c].opened =>
            /\ zipper[streams[c].entry].body = <<>>
            /\ streams[c].closes = 0
  /\ \A c \in OpenFailures :
       /\ zipper[streams[c].entry] =
            [name |-> EntryOf(streams[c].from, streams[c].pod), body |-> <<>>]
       /\ streams[c].closes = 0
       /\ streams[c].result.msg[1] = "could not stream the logs: "
       /\ streams[c].result.root \in {"open failed", "context canceled"}
       /\ c = Len(streams)
       /\ streams[c].entry = Len(zipper)
       /\ pc = "done" => Result = streams[c].result
  /\ \A c \in EmptyLogCalls :
       zipper[streams[c].entry] =
         [name |-> EntryOf(streams[c].from, streams[c].pod), body |-> <<>>]

C20_Witness ==
  /\ pc = "done"
  /\ op = "collect"
  /\ Len(streams) = 2
  /\ streams[2].from = "cluster"
  /\ 1 \in EmptyLogCalls
  /\ 2 \in OpenFailures
  /\ podLogs[streams[2].pod] # <<>>
  /\ zipper[streams[1].entry].body = zipper[streams[2].entry].body
  /\ Result.root = "open failed"

====
